---- MODULE Spec2Model ----
(***************************************************************************)
(* Model of the `vip wp` command (src/src/bin/vip-wp.js, second listing,   *)
(* lines 360-867): the prompt loop, the dispatcher handshake, the session  *)
(* transport, the stream coordinator with its reconnect handlers, the      *)
(* offset tracker and the interrupt handler.                               *)
(*                                                                         *)
(* Node runs one callback at a time, so every action below is one callback *)
(* run up to its next `await` (or to its end).  A callback suspended at an *)
(* `await` is a record in lineH / reconH or a count in endPending / sigH.  *)
(* The environment (user, dispatcher, server, socket.io) chooses which     *)
(* event comes next.                                                       *)
(*                                                                         *)
(* The second part models the ProgressTracker class (src/unnamed/part_003, *)
(* lines 277-413): its step maps and the methods that update them.  The    *)
(* two programs share nothing: Spec leaves the tracker untouched and       *)
(* TrackerSpec leaves the command untouched.                               *)
(***************************************************************************)
EXTENDS Integers, Sequences, FiniteSets, TLC

\* ------------------------------------------------------------------ bounds
MaxOpens == 2      \* transports opened, and calls of the dispatcher
MaxOffset == 2     \* cap on the tracked offset and on a chunk's length
MaxAttempts == 1   \* reconnect_attempt events
MaxCancelLines == 1   \* lines made of the cancellation byte that are dispatched
MaxFormatRun == 1     \* dispatcher calls of a run with a line-oriented --format
MaxServerSteps == 2   \* steps in one call of setStepsFromServer
MaxEnvs == 2          \* environments of the application

\* --------------------------------------------------------------- constants
\* Lines and commands are sequences of characters.
WpPrefix == <<"w", "p", " ">>
ExitWord == <<"e", "x", "i", "t">>
cancelCommandChar == <<"ETX">>

\* The --format options whose output lacks the final newline, as the earlier
\* 'end' handler lists them (lines 251-256).  An option is one element.
LineFormats ==
  { <<"--format=count">>, <<"--format=\"count\"">>, <<"--format='count'">>,
    <<"--format=ids">>, <<"--format=\"ids\"">>, <<"--format='ids'">> }

\* Lines the user may type at the prompt.
Lines ==
  { <<>>,
    ExitWord,
    cancelCommandChar,
    <<"a">>,
    WpPrefix \o <<"a">>,
    WpPrefix \o <<"--format=count">> }

\* The invocations explored: the subshell, a one-shot command with and
\* without the production confirmation, the log listing and a log attach.
\* args is the requoted argument string (<<>>: no arguments); one of the
\* one-shot commands itself contains the text "wp ".
\* Ids of the application's environments.
EnvIds == 1..MaxEnvs

Invocations ==
  { [args |-> <<>>,    log |-> "absent", yes |-> FALSE, env |-> "production",
     envId |-> 1],
    [args |-> <<"a">>, log |-> "absent", yes |-> FALSE, env |-> "production",
     envId |-> 1],
    [args |-> WpPrefix \o <<"a">>,
                       log |-> "absent", yes |-> TRUE,  env |-> "production",
     envId |-> 1],
    [args |-> <<"a">>, log |-> "absent", yes |-> FALSE, env |-> "develop",
     envId |-> 1],
    [args |-> <<>>,    log |-> "id",     yes |-> FALSE, env |-> "develop",
     envId |-> 1] }
  \cup { [args |-> <<>>, log |-> "true", yes |-> FALSE, env |-> "develop",
          envId |-> id] : id \in EnvIds }

NoJob == [socket |-> 0, stdinStream |-> 0, stdoutStream |-> 0]
NoGuid == <<"none", 0>>

\* An environment record of the answer to COMMANDS_QUERY (lines 475-502):
\* its id and its commands.  The commands of different environments differ.
CommandsOf(id) == <<"commands", id>>
Environment(id) == [id |-> id, commands |-> CommandsOf(id)]

\* The environment lists the API may answer with: each environment once, in
\* any order.
EnvLists ==
  { [i \in DOMAIN ids |-> Environment(ids[i])] :
      ids \in { s \in UNION { [1..n -> EnvIds] : n \in 0..MaxEnvs } :
                 \A i, j \in DOMAIN s : i # j => s[i] # s[j] } }

\* No answer has been received.
NoRes == [received |-> FALSE, environments |-> <<>>]

VARIABLES
  args,            \* requoted argument string `cmd` (<<>> when args is empty)
  opts,            \* [log, yes]: log is "absent", "true" or "id"
  envName,         \* opts.env.type
  envId,           \* opts.env.id
  pc,              \* position of the argv handler
  exitSite,        \* "" while running, else the process.exit call reached
  exitCode,
  commandRunning,
  currentOffset,
  currentJob,      \* [socket, stdinStream, stdoutStream] or NoJob
  countSIGINT,
  commandAction,   \* "null" or "logs"
  stdinFlowing,    \* process.stdin is being read (readline not paused)
  promptShown,
  socks,           \* sockets created, in order: [guid, closed, handlers]
  opens,           \* 'cmd' requests emitted, in order
  streams,         \* streams created, in order: [kind, sock, ended, endReq]
  stdinPipes,      \* streams process.stdin is piped into
  stdoutPipes,     \* streams piped into process.stdout
  lineH,           \* line handlers suspended at an await
  reconH,          \* reconnect handlers suspended in launchCommandAndGetStreams
  endPending,      \* 'end' handlers suspended at await trackEvent
  sigH,            \* SIGINT handler suspended at await trackEvent: "none",
                   \* or whether a command was running when the signal came
  dispatched,      \* command strings passed to getTokenForCommand, in order
  listingCalls,    \* variables of the queries of getEnvCompletedCommands
  res,             \* the answer of getEnvCompletedCommands, as the handler
                   \* left it: [received, environments]
  listed,          \* the commands the listing printed (<<>> if none)
  confirmShown,    \* the production confirmation prompt has been shown
  cancelBytes,     \* cancellation bytes written
  nAttempts,       \* reconnect_attempt events so far
  sumData,         \* history: bytes received for the command of liveGuid
  liveGuid,        \* history: command launched and not yet completed
  console,         \* the kind of text the callback that ran last wrote to
                   \* the console ("" if nothing)
  stepsFromCaller, \* ProgressTracker: Map id -> step, as the sequence of its
                   \* entries [id, status] in insertion order
  stepsFromServer, \* ProgressTracker: the same for the steps of the server
  hasFailure,      \* ProgressTracker
  allStepsSucceeded,  \* ProgressTracker: "undefined" until set, then "true"
  thrown,          \* the error the last call of a tracker method threw
                   \* ("none" if it returned)
  importPc,        \* import sql: position of the argv handler ("none" when
                   \* the process is not `vip import sql`)
  importOpts,      \* import sql: what the handler reads of opts
  currentAction,   \* import sql: module variable of that name
  progressSteps,   \* lib/cli/progress: step id -> status
  completedSteps,  \* lib/cli/progress: module-level array of progress()
  fileNameToUpload,
  startImportVariables,
  effects          \* import sql: calls made to the outside and the outcome
                   \* of the upload, in order, each as <<kind, detail>>

cfgVars == <<args, opts, envName, envId>>
procVars == <<pc, exitSite, exitCode>>
jobVars == <<commandRunning, currentOffset, currentJob, countSIGINT, commandAction>>
rlVars == <<stdinFlowing, promptShown>>
netVars == <<socks, streams, stdinPipes, stdoutPipes>>
pendVars == <<lineH, reconH, endPending, sigH>>
logVars == <<opens, dispatched, listingCalls, res, listed, confirmShown,
            cancelBytes>>
cntVars == <<nAttempts>>
histVars == <<sumData, liveGuid>>

wpVars == <<cfgVars, procVars, jobVars, rlVars, netVars, pendVars, logVars,
            cntVars, histVars, console>>
trackerVars == <<stepsFromCaller, stepsFromServer, hasFailure,
                 allStepsSucceeded, thrown>>

importVars == <<importPc, importOpts, currentAction, progressSteps,
                completedSteps, fileNameToUpload, startImportVariables,
                effects>>
otherVars == <<trackerVars, importVars>>

vars == <<wpVars, trackerVars, importVars>>

\* ----------------------------------------------------------------- helpers
\* String.prototype.startsWith
StartsWith(line, p) ==
  /\ Len(line) >= Len(p)
  /\ SubSeq(line, 1, Len(p)) = p

\* Positions at which pattern p occurs in line.
Occurrences(line, p) ==
  { i \in 1..(Len(line) - Len(p) + 1) : SubSeq(line, i, i + Len(p) - 1) = p }

\* Faulty variant (for C17): every occurrence of the pattern is removed.
RECURSIVE ReplaceEvery(_, _)
ReplaceEvery(line, p) ==
  IF Occurrences(line, p) = {}
  THEN line
  ELSE LET i == CHOOSE j \in Occurrences(line, p) :
                  \A k \in Occurrences(line, p) : j <= k
       IN ReplaceEvery(SubSeq(line, 1, i - 1) \o
                       SubSeq(line, i + Len(p), Len(line)), p)

\* line.replace( 'wp ', '' ): removes the first occurrence of a string pattern.
ReplaceFirst(line, p) ==
  IF Occurrences(line, p) = {}
  THEN line
  ELSE LET i == CHOOSE j \in Occurrences(line, p) :
                  \A k \in Occurrences(line, p) : j <= k
       IN SubSeq(line, 1, i - 1) \o SubSeq(line, i + Len(p), Len(line))

\* const isSubShell = 0 === args.length && ! opts.log
isSubShell == Len(args) = 0 /\ opts.log = "absent"

Running == exitSite = ""

\* Launches under way or still to be started by a suspended handler count
\* against MaxOpens.
Budget == Len(opens) + Cardinality(lineH) + Cardinality(reconH) < MaxOpens

\* A fresh name for a handler that is about to be suspended.
FreshId == Len(opens) + Cardinality(lineH) + Cardinality(reconH) + 1

\* What a callback leaves in console.  The texts that print an error of the
\* stream or of the socket ('Error: ' + err.message at line 423, the
\* authentication error at line 585 and the error itself at line 607) are
\* one kind of output, an error text; the rate limit notice of line 602 is
\* another.
Wrote(msg) == msg
ErrorText == "error_message"
RateLimitText == "rate_limit_notice"

\* line.includes( '--format=count' ) || ...: lines 251-256.
LineOriented(line) == \E f \in LineFormats : Occurrences(line, f) # {}

GuidOf(n) == <<"guid", n>>
LogGuid == <<"log", 0>>

\* process.exit( code ) at the named call site.  The process and all of its
\* in-memory state are gone; what it has sent and printed stays (logVars and
\* console are left to the caller).
Exit(site, code) ==
  /\ exitSite' = site
  /\ exitCode' = code
  /\ pc' = "exit"
  /\ commandRunning' = FALSE
  /\ currentOffset' = 0
  /\ currentJob' = NoJob
  /\ countSIGINT' = 0
  /\ commandAction' = "null"
  /\ stdinFlowing' = FALSE
  /\ promptShown' = FALSE
  /\ socks' = <<>>
  /\ streams' = <<>>
  /\ stdinPipes' = {}
  /\ stdoutPipes' = {}
  /\ lineH' = {}
  /\ reconH' = {}
  /\ endPending' = 0
  /\ sigH' = "none"
  /\ nAttempts' = 0
  /\ sumData' = 0
  /\ liveGuid' = NoGuid
  /\ UNCHANGED <<otherVars, cfgVars>>

\* process.stdin.unpipe( s ): removing the last destination pauses stdin
FlowAfterUnpipe(pipes, s, flowing) ==
  IF s \in pipes /\ pipes \ {s} = {} THEN FALSE ELSE flowing

NewStream(kind, sock) ==
  [kind |-> kind, sock |-> sock, ended |-> FALSE, endReq |-> FALSE]

\* -------------------------------------------------------------------- Init
\* No tracker has been constructed.
NoTracker ==
  /\ stepsFromCaller = <<>>
  /\ stepsFromServer = <<>>
  /\ hasFailure = FALSE
  /\ allStepsSucceeded = "undefined"
  /\ thrown = "none"

\* The process is not `vip import sql`.
NoImport ==
  /\ importPc = "none"
  /\ importOpts = [searchReplace |-> "", canImport |-> TRUE,
                   supported |-> TRUE, dbOperationInProgress |-> FALSE,
                   importInProgress |-> FALSE]
  /\ currentAction = "undefined"
  /\ progressSteps = <<>>
  /\ completedSteps = <<>>
  /\ fileNameToUpload = ""
  /\ startImportVariables = <<>>
  /\ effects = <<>>

\* The module-level state when the argv handler is entered.
ProcessStart ==
  /\ pc = "argv"
  /\ exitSite = ""
  /\ exitCode = 0
  /\ commandRunning = FALSE
  /\ currentOffset = 0
  /\ currentJob = NoJob
  /\ countSIGINT = 0
  /\ commandAction = "null"
  /\ stdinFlowing = FALSE
  /\ promptShown = FALSE
  /\ socks = <<>>
  /\ opens = <<>>
  /\ streams = <<>>
  /\ stdinPipes = {}
  /\ stdoutPipes = {}
  /\ lineH = {}
  /\ reconH = {}
  /\ endPending = 0
  /\ sigH = "none"
  /\ dispatched = <<>>
  /\ listingCalls = <<>>
  /\ res = NoRes
  /\ listed = <<>>
  /\ confirmShown = FALSE
  /\ cancelBytes = 0
  /\ nAttempts = 0
  /\ sumData = 0
  /\ liveGuid = NoGuid
  /\ console = Wrote("")

Init ==
  /\ \E inv \in Invocations :
       /\ args = inv.args
       /\ opts = [log |-> inv.log, yes |-> inv.yes]
       /\ envName = inv.env
       /\ envId = inv.envId
  /\ ProcessStart
  /\ NoTracker
  /\ NoImport

\* ------------------------------------------------------- the line handler
\* Faulty variant of the validation (for C9): the test of the "wp " prefix is
\* dropped.
LineValidationFailsOnlyEmpty(line) ==
  Len(line) = 0 /\ line # cancelCommandChar /\ opts.log = "absent"

\* Faulty variant of the validation (for C25): no exception is made for the
\* line that is the cancellation byte.
LineValidationFailsNoException(line) ==
  LET startsWithWp == StartsWith(line, WpPrefix)
      empty == Len(line) = 0
  IN (empty \/ ~startsWithWp) /\ opts.log = "absent"

\* The validation of lines 727-731.
LineValidationFails(line) ==
  LET startsWithWp == StartsWith(line, WpPrefix)
      empty == Len(line) = 0
      userCmdCancelled == line = cancelCommandChar
  IN (empty \/ ~startsWithWp) /\ ~userCmdCancelled /\ opts.log = "absent"

\* Faulty variant (for C11): the log attach forgets its commandAction.
AttachActionUnset == "null"

\* commandAction = 'logs': line 769.
AttachAction == "logs"

\* The branch the line handler takes: lines 711-773.
LineOutcome(line) ==
  IF commandRunning THEN "ignored"
  ELSE IF Len(line) = 0 THEN "reprompt"
  ELSE IF StartsWith(line, ExitWord) THEN "exit"
  ELSE IF LineValidationFails(line) THEN "invalid"
  ELSE IF opts.log = "absent" THEN "dispatch"
  ELSE "attach"

\* subShellRl.on( 'line', ... ) up to its first await: lines 710-743, 768-779.
LineHandler(line) ==
  LET outcome == LineOutcome(line) IN
  /\ console' = Wrote(IF outcome = "invalid" THEN "invalid_command" ELSE "")
  /\ IF outcome = "exit"
     THEN /\ Exit("line_exit", 0)
          /\ UNCHANGED logVars
     ELSE
       /\ pc' = "loop"
       /\ promptShown' = (outcome \in {"reprompt", "invalid"})
       /\ stdinFlowing' =
            CASE outcome \in {"reprompt", "invalid"} -> TRUE
              [] outcome \in {"dispatch", "attach"} -> FALSE
              [] OTHER -> stdinFlowing
       /\ dispatched' =
            IF outcome = "dispatch"
            THEN Append(dispatched, ReplaceFirst(line, WpPrefix))
            ELSE dispatched
       /\ commandAction' =
            IF outcome = "attach" THEN AttachAction ELSE commandAction
       /\ lineH' =
            CASE outcome = "dispatch" ->
                   lineH \cup {[id |-> FreshId, pc |-> "dispatch",
                                guid |-> NoGuid, d |-> Len(dispatched) + 1,
                                action |-> "null"]}
              [] outcome = "attach" ->
                   lineH \cup {[id |-> FreshId, pc |-> "launch",
                                guid |-> LogGuid, d |-> 0,
                                action |-> AttachAction]}
              [] OTHER -> lineH
       /\ UNCHANGED <<otherVars, cfgVars, exitSite, exitCode, commandRunning,
                     currentOffset, currentJob, countSIGINT, netVars, reconH,
                     endPending, sigH, opens, listingCalls, res, listed,
                     confirmShown,
                     cancelBytes, cntVars, histVars>>

\* The user submits a line at the terminal.
LineEvent(line) ==
  /\ Running
  /\ pc = "loop"
  /\ stdinFlowing
  /\ LineOutcome(line) = "dispatch" => Len(dispatched) < MaxOpens
  /\ (LineOutcome(line) = "dispatch" /\ line = cancelCommandChar) =>
       Cardinality({n \in DOMAIN dispatched :
                      dispatched[n] = cancelCommandChar}) < MaxCancelLines
  /\ (/\ LineOutcome(line) = "dispatch"
      /\ \/ LineOriented(line)
         \/ \E n \in DOMAIN dispatched : LineOriented(dispatched[n])) =>
       Len(dispatched) < MaxFormatRun
  /\ LineOutcome(line) \in {"dispatch", "attach"} => Budget
  /\ LineHandler(line)

\* ------------------------------------------------------ the argv handler
\* Lines 657-660 and 677-709, 826, 835, 866 for the subshell: prints the
\* welcome, registers the handlers and shows the prompt.
SetupSubShell ==
  /\ pc' = "loop"
  /\ promptShown' = TRUE
  /\ stdinFlowing' = TRUE
  /\ console' = Wrote("welcome")
  /\ UNCHANGED <<otherVars, cfgVars, exitSite, exitCode, jobVars, netVars, pendVars,
                logVars, cntVars, histVars>>

\* Lines 677-709 and 859-864 for a one-shot run: registers the handlers and
\* feeds `wp <cmd>` to readline, which runs the line handler at once.
SetupOneShot == LineHandler(WpPrefix \o args)

\* Faulty variant (for C10): the confirmation is never asked for.
NeedsConfirmNever == FALSE

\* A run that is not a subshell asks for confirmation on production unless
\* --yes is given: lines 661-662.
NeedsConfirm == envName = "production" /\ ~opts.yes

\* Faulty variant (for C28): the listing asks for the running commands.
ListingVariablesRunning == [status |-> "running", first |-> 5]

\* variables: { id: appId, status: 'complete', first: 5 }: lines 512-516.
ListingVariables == [status |-> "complete", first |-> 5]

\* .argv( process.argv, async ( args, opts ) => { ... up to the first await:
\* lines 622-667.
Argv ==
  /\ Running
  /\ pc = "argv"
  /\ IF opts.log = "true"
     THEN /\ pc' = "listing"
          /\ listingCalls' = Append(listingCalls, ListingVariables)
          /\ console' = Wrote("")
          /\ UNCHANGED <<otherVars, cfgVars, exitSite, exitCode, jobVars, rlVars, netVars,
                        pendVars, opens, dispatched, res, listed,
                        confirmShown, cancelBytes, cntVars, histVars>>
     ELSE IF isSubShell
     THEN SetupSubShell
     ELSE IF NeedsConfirm
     THEN /\ pc' = "confirm"
          /\ confirmShown' = TRUE
          /\ console' = Wrote("")
          /\ UNCHANGED <<otherVars, cfgVars, exitSite, exitCode, jobVars, rlVars, netVars,
                        pendVars, opens, dispatched, listingCalls, res, listed,
                        cancelBytes,
                        cntVars, histVars>>
     ELSE SetupOneShot

\* res.data.app.environments.find( e => e.id = envId ): line 647.  The
\* predicate assigns envId to the id of the element it is given and yields
\* the assigned value, an id, which is truthy: find stops at the first
\* element.  The result is the array as the predicate left it and the
\* element found (<<>> for undefined, when the array is empty).
findEnv(environments, id) ==
  IF environments = <<>>
  THEN [environments |-> environments, found |-> <<>>]
  ELSE LET assigned == [environments EXCEPT ![1].id = id]
       IN [environments |-> assigned, found |-> <<assigned[1]>>]

\* getEnvCompletedCommands has returned (lines 646-652).  With the answer of
\* the API the commands of the environment found are printed and the process
\* exits.  When the query failed it has printed the failure and returned
\* nothing (lines 518-524): res.data throws; when no environment is found,
\* env.commands throws (line 648).  The handler's promise is then rejected,
\* and the process, which has nothing left to wait for, ends with the status
\* the runtime gives to an unhandled rejection (0 or 1).
ListingDone(ok, code, environments) ==
  /\ Running
  /\ pc = "listing"
  /\ IF ok
     THEN LET r == findEnv(environments, envId)
          IN /\ res' = [received |-> TRUE, environments |-> r.environments]
             /\ IF r.found # <<>>
                THEN /\ code = 0
                     /\ Exit("log_list", 0)
                     /\ listed' = r.found[1].commands
                     /\ console' = Wrote("listing")
                ELSE /\ Exit("log_list_failed", code)
                     /\ console' = Wrote("")
                     /\ UNCHANGED listed
     ELSE /\ environments = <<>>
          /\ Exit("log_list_failed", code)
          /\ console' = Wrote("listing_failed")
          /\ UNCHANGED <<res, listed>>
  /\ UNCHANGED <<opens, dispatched, listingCalls, confirmShown, cancelBytes>>

\* The user answers the production confirmation prompt: lines 662-675.
ConfirmAnswer(yes) ==
  /\ Running
  /\ pc = "confirm"
  /\ IF yes
     THEN SetupOneShot
     ELSE /\ Exit("confirm_decline", 0)
          /\ console' = Wrote("command_cancelled")
          /\ UNCHANGED logVars

\* ------------------------------------------- dispatcher and first launch
\* Faulty variant (for C13): a failed dispatch never ends the process.
ExitsOnDispatchFailNever == FALSE

\* if ( ! isSubShell ) { subShellRl.close(); process.exit( 1 ); }: line 756.
ExitsOnDispatchFail == ~isSubShell

\* getTokenForCommand rejects: lines 744-763.
DispatchFail(h) ==
  /\ Running
  /\ h \in lineH
  /\ h.pc = "dispatch"
  /\ console' = Wrote("dispatch_error")
  /\ IF ExitsOnDispatchFail
     THEN /\ Exit("dispatch_fail", 1)
          /\ UNCHANGED logVars
     ELSE /\ lineH' = lineH \ {h}
          /\ promptShown' = TRUE
          /\ stdinFlowing' = TRUE
          /\ UNCHANGED <<otherVars, cfgVars, procVars, jobVars, netVars, reconH,
                        endPending, sigH, logVars, cntVars, histVars>>

\* getTokenForCommand resolves: lines 765-783 up to the await inside
\* launchCommandAndGetStreams (line 551).  The arguments of the launch are
\* evaluated here.
DispatchOk(h) ==
  /\ Running
  /\ h \in lineH
  /\ h.pc = "dispatch"
  /\ lineH' = (lineH \ {h}) \cup
              {[h EXCEPT !.pc = "launch", !.guid = GuidOf(h.d),
                         !.action = commandAction]}
  /\ console' = Wrote("")
  /\ UNCHANGED <<otherVars, cfgVars, procVars, jobVars, rlVars, netVars, reconH,
                endPending, sigH, logVars, cntVars, histVars>>

\* launchCommandAndGetStreams after its await (lines 552-610): creates the
\* socket and the stream pair and emits 'cmd'.
LaunchedSocks(guid, handlers) ==
  Append(socks, [guid |-> guid, closed |-> FALSE, handlers |-> handlers])

LaunchedStreams(k) ==
  streams \o << NewStream("out", k), NewStream("in", k) >>

LaunchedOpens(guid, offset, action, by) ==
  Append(opens, [guid |-> guid, offset |-> offset, commandAction |-> action,
                 by |-> by])

\* The line handler after the launch: lines 779-822.  k, o, i are the new
\* socket, output stream and input stream.
LaunchDone(h) ==
  LET k == Len(socks) + 1
      o == Len(streams) + 1
      i == Len(streams) + 2
  IN
  /\ Running
  /\ h \in lineH
  /\ h.pc = "launch"
  /\ lineH' = lineH \ {h}
  /\ socks' = LaunchedSocks(h.guid, TRUE)
  /\ streams' = LaunchedStreams(k)
  /\ opens' = LaunchedOpens(h.guid, 0, h.action, "line")
  /\ currentJob' = [socket |-> k, stdinStream |-> i, stdoutStream |-> o]
  /\ stdinPipes' = stdinPipes \cup {i}
  /\ stdoutPipes' = stdoutPipes \cup {o}
  /\ stdinFlowing' = TRUE
  /\ commandRunning' = TRUE
  /\ liveGuid' = h.guid
  /\ sumData' = IF h.guid = liveGuid THEN sumData ELSE 0
  /\ console' = Wrote("")
  /\ UNCHANGED <<otherVars, cfgVars, procVars, currentOffset, countSIGINT, commandAction,
                promptShown, reconH, endPending, sigH, dispatched,
                listingCalls, res, listed, confirmShown, cancelBytes,
                cntVars>>

\* ------------------------------------------------------- output streams
\* Faulty variant (for C2): the chunk length overwrites the offset.
NewOffsetOverwrite(len) == len

\* currentOffset = data.length + currentOffset: line 566.
NewOffset(len) == len + currentOffset

\* A stream created by a launch delivers events until it has ended or the
\* client has closed its socket.
Live(s) ==
  /\ streams[s].kind = "out"
  /\ ~streams[s].ended
  /\ ~socks[streams[s].sock].closed

\* stdoutStream.on( 'data', ... ): lines 565-567.
Data(s, len) ==
  /\ Running
  /\ s \in DOMAIN streams
  /\ Live(s)
  /\ NewOffset(len) <= MaxOffset
  /\ currentOffset' = NewOffset(len)
  /\ sumData' = IF socks[streams[s].sock].guid = liveGuid
                THEN sumData + len ELSE sumData
  /\ console' = Wrote("")
  /\ UNCHANGED <<otherVars, cfgVars, procVars, commandRunning, currentJob, countSIGINT,
                commandAction, rlVars, netVars, pendVars, logVars, cntVars,
                liveGuid>>

\* An output stream ends because the server ends it or because the client
\* has called end() on it (line 846).
CanEnd(s) ==
  /\ streams[s].kind \in {"out", "pout"}
  /\ ~streams[s].ended
  /\ Live(s) \/ streams[s].endReq

\* Faulty variant (for C4): the 'end' handler leaves the flag as it is.
RunningAfterEndStale == commandRunning

\* commandRunning = false: line 428.
RunningAfterEnd == FALSE

\* stdoutStream.on( 'end', ... ) up to await trackEvent: lines 426-430.
StreamEnd(s) ==
  /\ Running
  /\ s \in DOMAIN streams
  /\ CanEnd(s)
  /\ streams' = [streams EXCEPT ![s].ended = TRUE]
  /\ commandRunning' = RunningAfterEnd
  /\ endPending' = endPending + 1
  /\ console' = Wrote("")
  /\ UNCHANGED <<otherVars, cfgVars, procVars, currentOffset, currentJob, countSIGINT,
                commandAction, rlVars, socks, stdinPipes, stdoutPipes,
                lineH, reconH, sigH, logVars, cntVars, histVars>>

\* Reset offset: line 437.
OffsetAfterEnd == 0

\* The rest of the 'end' handler: lines 432-445.
EndCont ==
  /\ Running
  /\ endPending > 0
  /\ console' = Wrote("")
  /\ IF ~isSubShell
     THEN /\ Exit("end", 0)
          /\ UNCHANGED logVars
     ELSE /\ endPending' = endPending - 1
          /\ socks' = [socks EXCEPT ![currentJob.socket].closed = TRUE]
          /\ stdinPipes' = stdinPipes \ {currentJob.stdinStream}
          /\ stdoutPipes' = stdoutPipes \ {currentJob.stdoutStream}
          /\ currentOffset' = OffsetAfterEnd
          /\ stdinFlowing' = TRUE
          /\ promptShown' = TRUE
          /\ liveGuid' = NoGuid
          /\ UNCHANGED <<otherVars, cfgVars, procVars, commandRunning, currentJob,
                        countSIGINT, commandAction, streams, lineH, reconH,
                        sigH, logVars, cntVars, sumData>>

\* stdoutStream.on( 'error', ... ): lines 419-424.
StreamError(s) ==
  /\ Running
  /\ s \in DOMAIN streams
  /\ Live(s)
  /\ commandRunning' = FALSE
  /\ console' = Wrote(ErrorText)
  /\ UNCHANGED <<otherVars, cfgVars, procVars, currentOffset, currentJob, countSIGINT,
                commandAction, rlVars, netVars, pendVars, logVars, cntVars,
                histVars>>

\* ------------------------------------------------------- socket events
\* Offset the reconnect handler passes to launchCommandAndGetStreams: line 800.
ReconnectOffset == currentOffset

\* socket 'reconnect' on the socket the line handler registered the handler
\* on: lines 791-801 up to the await inside launchCommandAndGetStreams.
ReconnectEv(k) ==
  /\ Running
  /\ k \in DOMAIN socks
  /\ ~socks[k].closed
  /\ socks[k].handlers
  /\ Budget
  /\ stdinPipes' = stdinPipes \ {currentJob.stdinStream}
  /\ stdoutPipes' = stdoutPipes \ {currentJob.stdoutStream}
  /\ stdinFlowing' =
       FlowAfterUnpipe(stdinPipes, currentJob.stdinStream, stdinFlowing)
  /\ reconH' = reconH \cup
       {[id |-> FreshId, guid |-> socks[k].guid, offset |-> ReconnectOffset]}
  /\ console' = Wrote("")
  /\ UNCHANGED <<otherVars, cfgVars, procVars, jobVars, promptShown, socks, streams,
                lineH, endPending, sigH, logVars, cntVars, histVars>>

\* The reconnect handler after the launch: lines 797-809.
ReconnectDone(h) ==
  LET k == Len(socks) + 1
      o == Len(streams) + 1
      i == Len(streams) + 2
  IN
  /\ Running
  /\ h \in reconH
  /\ reconH' = reconH \ {h}
  /\ socks' = LaunchedSocks(h.guid, FALSE)
  /\ streams' = LaunchedStreams(k)
  /\ opens' = LaunchedOpens(h.guid, h.offset, "undefined", "reconnect")
  /\ currentJob' = [socket |-> k, stdinStream |-> i, stdoutStream |-> o]
  /\ stdinPipes' = stdinPipes \cup {i}
  /\ stdoutPipes' = stdoutPipes \cup {o}
  /\ stdinFlowing' = TRUE
  /\ console' = Wrote("")
  /\ UNCHANGED <<otherVars, cfgVars, procVars, commandRunning, currentOffset,
                countSIGINT, commandAction, promptShown, lineH, endPending,
                sigH, dispatched, listingCalls, res, listed, confirmShown,
                cancelBytes,
                cntVars, histVars>>

\* socket 'reconnect_attempt' on the socket the line handler registered the
\* handler on: lines 812-822.  pin and pout are the placeholder streams.
ReconnectAttemptEv(k) ==
  LET pin == Len(streams) + 1
      pout == Len(streams) + 2
  IN
  /\ Running
  /\ k \in DOMAIN socks
  /\ ~socks[k].closed
  /\ socks[k].handlers
  /\ nAttempts < MaxAttempts
  /\ nAttempts' = nAttempts + 1
  /\ streams' = streams \o << NewStream("pin", 0), NewStream("pout", 0) >>
  /\ stdinPipes' = (stdinPipes \ {currentJob.stdinStream}) \cup {pin}
  /\ stdinFlowing' = TRUE
  /\ currentJob' = [currentJob EXCEPT !.stdoutStream = pout]
  /\ console' = Wrote("retrying")
  /\ UNCHANGED <<otherVars, cfgVars, procVars, commandRunning, currentOffset,
                countSIGINT, commandAction, promptShown, socks, stdoutPipes,
                pendVars, logVars, histVars>>

\* Faulty variant (for C14): the handler reports the cancel and returns.
CancelReportsOnly(k) ==
  /\ Running
  /\ k \in DOMAIN socks
  /\ ~socks[k].closed
  /\ console' = Wrote("cancel_from_server")
  /\ UNCHANGED <<otherVars, cfgVars, procVars, jobVars, rlVars, netVars, pendVars,
                logVars, cntVars, histVars>>

\* socket 'cancel': lines 588-592.
Cancel(k) ==
  /\ Running
  /\ k \in DOMAIN socks
  /\ ~socks[k].closed
  /\ Exit("server_cancel", 1)
  /\ console' = Wrote("cancel_from_server")
  /\ UNCHANGED logVars

\* Faulty variant (for C23): the handler treats the error as the end of the
\* command and clears commandRunning.
SocketErrorClears(k, rateLimit) ==
  /\ Running
  /\ k \in DOMAIN socks
  /\ ~socks[k].closed
  /\ console' = Wrote(IF rateLimit THEN RateLimitText ELSE ErrorText)
  /\ commandRunning' = FALSE
  /\ UNCHANGED <<otherVars, cfgVars, procVars, currentOffset, currentJob, countSIGINT,
                commandAction, rlVars, netVars, pendVars, logVars, cntVars,
                histVars>>

\* socket 'error': lines 600-608.
SocketError(k, rateLimit) ==
  /\ Running
  /\ k \in DOMAIN socks
  /\ ~socks[k].closed
  /\ console' = Wrote(IF rateLimit THEN RateLimitText ELSE ErrorText)
  /\ UNCHANGED <<otherVars, cfgVars, procVars, jobVars, rlVars, netVars, pendVars,
                logVars, cntVars, histVars>>

\* socket 'unauthorized': lines 584-586.
Unauthorized(k) ==
  /\ Running
  /\ k \in DOMAIN socks
  /\ ~socks[k].closed
  /\ console' = Wrote(ErrorText)
  /\ UNCHANGED <<otherVars, cfgVars, procVars, jobVars, rlVars, netVars, pendVars,
                logVars, cntVars, histVars>>

\* ------------------------------------------------------------- interrupts
\* Faulty variant (for C6): the process exits on the third interrupt only.
SecondInterruptLate == countSIGINT >= 2

\* if ( countSIGINT >= 1 ) process.exit(): line 837.
SecondInterrupt == countSIGINT >= 1

\* subShellRl.on( 'SIGINT', ... ) up to await trackEvent: lines 835-849.
Sigint ==
  /\ Running
  /\ pc = "loop"
  /\ stdinFlowing
  /\ console' = Wrote("")
  /\ IF SecondInterrupt
     THEN /\ Exit("sigint_second", 0)
          /\ UNCHANGED logVars
     ELSE /\ countSIGINT' = countSIGINT + 1
          /\ cancelBytes' = cancelBytes + 1
          /\ streams' =
               IF currentJob # NoJob /\ currentJob.stdoutStream # 0
               THEN [streams EXCEPT ![currentJob.stdoutStream].endReq = TRUE]
               ELSE streams
          /\ sigH' = IF commandRunning THEN "running" ELSE "idle"
          /\ UNCHANGED <<otherVars, cfgVars, procVars, commandRunning, currentOffset,
                        currentJob, commandAction, rlVars, socks, stdinPipes,
                        stdoutPipes, lineH, reconH, endPending, opens,
                        dispatched, listingCalls, res, listed, confirmShown,
                        cntVars,
                        histVars>>

\* Faulty variant (for C22): the handler always ends the process.
ExitsAfterCancelAlways == TRUE

\* if ( commandRunning === false ) process.exit(): lines 854-856.
ExitsAfterCancel == commandRunning = FALSE

\* The rest of the SIGINT handler: lines 851-856.
SigintCont ==
  /\ Running
  /\ sigH # "none"
  /\ console' = Wrote("cancelled_by_user")
  /\ IF ExitsAfterCancel
     THEN /\ Exit("sigint_idle", 0)
          /\ UNCHANGED logVars
     ELSE /\ sigH' = "none"
          /\ UNCHANGED <<otherVars, cfgVars, procVars, jobVars, rlVars, netVars, lineH,
                        reconH, endPending, logVars, cntVars, histVars>>

\* -------------------------------------------------------------------- Next
Next ==
  \/ Argv
  \/ \E ok \in BOOLEAN : \E code \in {0, 1} : \E environments \in EnvLists :
       ListingDone(ok, code, environments)
  \/ \E yes \in BOOLEAN : ConfirmAnswer(yes)
  \/ \E line \in Lines : LineEvent(line)
  \/ \E h \in lineH : DispatchFail(h)
  \/ \E h \in lineH : DispatchOk(h)
  \/ \E h \in lineH : LaunchDone(h)
  \/ \E s \in DOMAIN streams : \E len \in 1..MaxOffset : Data(s, len)
  \/ \E s \in DOMAIN streams : StreamError(s)
  \/ \E s \in DOMAIN streams : StreamEnd(s)
  \/ EndCont
  \/ \E k \in DOMAIN socks : ReconnectAttemptEv(k)
  \/ \E k \in DOMAIN socks : ReconnectEv(k)
  \/ \E h \in reconH : ReconnectDone(h)
  \/ \E k \in DOMAIN socks : Cancel(k)
  \/ \E k \in DOMAIN socks : Unauthorized(k)
  \/ \E k \in DOMAIN socks : \E rateLimit \in BOOLEAN : SocketError(k, rateLimit)
  \/ Sigint
  \/ SigintCont

Spec == Init /\ [][Next]_vars

\* ------------------------------------------------ the subshell, with fairness
\* The invocations that start the subshell.
SubShellInit == Init /\ isSubShell

\* The steps a subshell run can take.
SubShellNext ==
  \/ Argv
  \/ \E line \in Lines : LineEvent(line)
  \/ \E h \in lineH : DispatchFail(h)
  \/ \E h \in lineH : DispatchOk(h)
  \/ \E h \in lineH : LaunchDone(h)
  \/ \E s \in DOMAIN streams : \E len \in 1..MaxOffset : Data(s, len)
  \/ \E s \in DOMAIN streams : StreamError(s)
  \/ \E s \in DOMAIN streams : StreamEnd(s)
  \/ EndCont
  \/ \E k \in DOMAIN socks : ReconnectAttemptEv(k)
  \/ \E k \in DOMAIN socks : ReconnectEv(k)
  \/ \E h \in reconH : ReconnectDone(h)
  \/ \E k \in DOMAIN socks : Cancel(k)
  \/ \E k \in DOMAIN socks : Unauthorized(k)
  \/ \E k \in DOMAIN socks : \E rateLimit \in BOOLEAN : SocketError(k, rateLimit)
  \/ Sigint
  \/ SigintCont

\* The event loop runs every callback that is ready: the argv handler, and
\* every handler suspended at an await whose promise is settled (the tracking
\* calls, the dispatcher call and the opening of a transport all settle).
\* Nothing is assumed about what the user, the server or the network do.
HandlersProceed ==
  /\ WF_vars(Argv)
  /\ WF_vars(\E h \in lineH : DispatchFail(h) \/ DispatchOk(h))
  /\ WF_vars(\E h \in lineH : LaunchDone(h))
  /\ WF_vars(EndCont)
  /\ WF_vars(\E h \in reconH : ReconnectDone(h))
  /\ WF_vars(SigintCont)

\* The server ends every output stream it has open: a stream that can emit
\* 'end' (line 426) eventually does.
OutputEnds == WF_vars(\E s \in DOMAIN streams : StreamEnd(s))

FairSpec ==
  SubShellInit /\ [][SubShellNext]_vars /\ HandlersProceed /\ OutputEnds

\* ======================================================= ProgressTracker
\* Faulty variant (for C29): a skipped step is not taken as completed.
COMPLETED_STEP_SLUGS_SuccessOnly == {"success"}

\* const COMPLETED_STEP_SLUGS = [ 'success', 'skipped' ]: line 275.
COMPLETED_STEP_SLUGS == {"success", "skipped"}

\* Statuses a caller may pass to setStatusForStepId.
Statuses == {"pending", "running", "success", "skipped", "failed"}

\* The steps the tracker is constructed with: their ids, in order, and the
\* statuses a step may be given with ("": none).
CallerIds == << <<"s1">>, <<"s2">>, <<"s3">> >>
InputStatuses == {"", "pending", "success"}

\* Steps reported by the server: one name, these statuses.
ServerName == "n"
ServerStatuses == {"pending", "running", "success"}

\* id: `server-${ index }-${ name }` (line 316).
ServerId(index, name) == <<"server", index, name>>

\* An id no step has.
UnknownId == <<"nope">>

\* Ids the methods are called with.
CallIds ==
  {CallerIds[i] : i \in DOMAIN CallerIds}
    \cup {UnknownId}
    \cup {ServerId(i, ServerName) : i \in 0..(MaxServerSteps - 1)}

Step(id, status) == [id |-> id, status |-> status]

\* What find() returns when no step matches.
NoStep == Step(<<>>, "undefined")

\* Map.prototype.has / get / set on a map kept as the sequence of its
\* entries: set() keeps the position of a key that is already present.
MapHas(map, id) == \E i \in DOMAIN map : map[i].id = id

MapGet(map, id) == map[CHOOSE i \in DOMAIN map : map[i].id = id]

MapSet(map, step) ==
  IF MapHas(map, step.id)
  THEN [i \in DOMAIN map |-> IF map[i].id = step.id THEN step ELSE map[i]]
  ELSE Append(map, step)

\* new Map( entries ) / reduce with map.set: the entries are set in order.
RECURSIVE MapOf(_, _)
MapOf(map, entries) ==
  IF entries = <<>>
  THEN map
  ELSE MapOf(MapSet(map, Head(entries)), Tail(entries))

\* mapSteps: lines 307-312; status: status || 'pending'.
mapSteps(steps) ==
  MapOf(<<>>,
        [i \in DOMAIN steps |->
           Step(steps[i].id,
                IF steps[i].status = "" THEN "pending" ELSE steps[i].status)])

\* getSteps applied to the two maps: lines 303-305.
MergedSteps(caller, server) == MapOf(<<>>, caller \o server)

getSteps == MergedSteps(stepsFromCaller, stepsFromServer)

\* steps.find( ( { status } ) => status === 'pending' ): line 338.
FirstPending(steps) ==
  IF \E i \in DOMAIN steps : steps[i].status = "pending"
  THEN steps[CHOOSE i \in DOMAIN steps :
               /\ steps[i].status = "pending"
               /\ \A j \in DOMAIN steps : steps[j].status = "pending" => i <= j]
  ELSE NoStep

\* getNextStep on the given maps and flag: lines 333-339.
NextStepOf(caller, server, allSucceeded) ==
  IF allSucceeded = "true"
  THEN NoStep
  ELSE FirstPending(MergedSteps(caller, server))

getNextStep == NextStepOf(stepsFromCaller, stepsFromServer, allStepsSucceeded)

\* setStatusForStepId as a function of the caller map and hasFailure:
\* lines 364-383.  thrown names the Error it throws, if any.
SetStatus(caller, failure, stepId, status) ==
  IF ~MapHas(caller, stepId)
  THEN [caller |-> caller, hasFailure |-> failure, thrown |-> "not_valid"]
  ELSE IF MapGet(caller, stepId).status \in COMPLETED_STEP_SLUGS
  THEN [caller |-> caller, hasFailure |-> failure,
        thrown |-> "already_completed"]
  ELSE [caller |-> MapSet(caller, Step(stepId, status)),
        hasFailure |-> (failure \/ status = "failed"),
        thrown |-> "none"]

\* The state after the constructor (lines 294-301); allStepsSucceeded is not
\* assigned there.  The command is not running.
TrackerInit ==
  /\ args = <<>>
  /\ opts = [log |-> "absent", yes |-> FALSE]
  /\ envName = "develop"
  /\ envId = 1
  /\ ProcessStart
  /\ NoImport
  /\ \E input \in [DOMAIN CallerIds -> InputStatuses] :
       stepsFromCaller =
         mapSteps([i \in DOMAIN CallerIds |-> Step(CallerIds[i], input[i])])
  /\ stepsFromServer = <<>>
  /\ hasFailure = FALSE
  /\ allStepsSucceeded = "undefined"
  /\ thrown = "none"

\* setStatusForStepId( stepId, status ): lines 364-383.
setStatusForStepId(stepId, status) ==
  LET r == SetStatus(stepsFromCaller, hasFailure, stepId, status) IN
  /\ stepsFromCaller' = r.caller
  /\ hasFailure' = r.hasFailure
  /\ thrown' = r.thrown
  /\ UNCHANGED <<stepsFromServer, allStepsSucceeded, wpVars, importVars>>

\* stepRunning, stepFailed, stepSkipped: lines 341-351.
stepRunning(stepId) == setStatusForStepId(stepId, "running")

stepFailed(stepId) == setStatusForStepId(stepId, "failed")

stepSkipped(stepId) == setStatusForStepId(stepId, "skipped")

\* stepSuccess( stepId ): lines 353-362.  An Error thrown by either call of
\* setStatusForStepId ends the method where it is.
stepSuccess(stepId) ==
  LET first == SetStatus(stepsFromCaller, hasFailure, stepId, "success")
      nextStep == NextStepOf(first.caller, stepsFromServer, allStepsSucceeded)
      second == SetStatus(first.caller, first.hasFailure, nextStep.id,
                          "running")
  IN
  /\ UNCHANGED <<stepsFromServer, wpVars, importVars>>
  /\ IF first.thrown # "none"
     THEN /\ thrown' = first.thrown
          /\ UNCHANGED <<stepsFromCaller, hasFailure, allStepsSucceeded>>
     ELSE IF nextStep # NoStep
     THEN /\ stepsFromCaller' = second.caller
          /\ hasFailure' = second.hasFailure
          /\ thrown' = second.thrown
          /\ UNCHANGED allStepsSucceeded
     ELSE /\ stepsFromCaller' = first.caller
          /\ hasFailure' = first.hasFailure
          /\ thrown' = "none"
          /\ allStepsSucceeded' = "true"

\* Inputs of setStepsFromServer: the statuses of up to MaxServerSteps steps.
ServerInputs ==
  UNION {[1..n -> ServerStatuses] : n \in 0..MaxServerSteps}

\* setStepsFromServer( steps ): lines 314-331.  The first pending step is
\* promoted to running when no step is running.
setStepsFromServer(steps) ==
  LET someRunning == \E i \in DOMAIN steps : steps[i] = "running"
      pending == {i \in DOMAIN steps : steps[i] = "pending"}
      promoted == IF ~someRunning /\ pending # {}
                  THEN CHOOSE i \in pending : \A j \in pending : i <= j
                  ELSE 0
      formattedSteps ==
        [i \in DOMAIN steps |->
           Step(ServerId(i - 1, ServerName),
                IF i = promoted THEN "running" ELSE steps[i])]
  IN
  /\ stepsFromServer' = mapSteps(formattedSteps)
  /\ thrown' = "none"
  /\ UNCHANGED <<stepsFromCaller, hasFailure, allStepsSucceeded, wpVars, importVars>>

TrackerNext ==
  \/ \E id \in CallIds : \E status \in Statuses : setStatusForStepId(id, status)
  \/ \E id \in CallIds : stepRunning(id)
  \/ \E id \in CallIds : stepFailed(id)
  \/ \E id \in CallIds : stepSkipped(id)
  \/ \E id \in CallIds : stepSuccess(id)
  \/ \E steps \in ServerInputs : setStepsFromServer(steps)

TrackerSpec == TrackerInit /\ [][TrackerNext]_vars

\* ============================================================ import sql
\* progressSteps of lib/cli/progress (src/src/lib/cli/progress.js, lines
\* 11-17), as the sequence of [id, status].
StepIds == <<"replace", "validate", "upload", "startImport", "import">>
InitialProgressSteps == [i \in DOMAIN StepIds |-> Step(StepIds[i], "pending")]

\* setStatusForCurrentAction( status, action ): progress.js lines 20-30.  The
\* step objects are changed in place.
setStatusForCurrentAction(steps, status, action) ==
  [i \in DOMAIN steps |->
     IF steps[i].id = action THEN Step(steps[i].id, status) ELSE steps[i]]

\* What one call of progress( steps ) adds to completedSteps, each entry as
\* the sequence of its parts (the id, or the id and '-skipped'): progress.js
\* lines 35-51.
RECURSIVE Completed(_)
Completed(steps) ==
  IF steps = <<>>
  THEN <<>>
  ELSE (IF Head(steps).status = "success"
        THEN << <<Head(steps).id>> >>
        ELSE IF Head(steps).status = "skipped"
        THEN << <<Head(steps).id, "-skipped">> >>
        ELSE <<>>) \o Completed(Tail(steps))

\* currentStatus = setStatusForCurrentAction( status, currentAction );
\* progress( currentStatus, runningSprite ), with the value currentAction has
\* after the step.
SetAndShow(status, action) ==
  LET steps == setStatusForCurrentAction(progressSteps, status, action)
  IN /\ progressSteps' = steps
     /\ completedSteps' = completedSteps \o Completed(steps)

\* The options the handler may be started with: opts.searchReplace, and the
\* fields of opts.app and opts.env the gates read.
ImportOptions ==
  [searchReplace : {"", "from,to"}, canImport : BOOLEAN, supported : BOOLEAN,
   dbOperationInProgress : BOOLEAN, importInProgress : BOOLEAN]

\* The sizes getFileSize may report: empty, within the limit, above it.
FileSizes == {"empty", "within_limit", "above_limit"}

Did(kind, detail) == effects' = Append(effects, <<kind, detail>>)

\* The state when the argv handler of `vip import sql` is entered.
ImportInit ==
  /\ args = <<>>
  /\ opts = [log |-> "absent", yes |-> FALSE]
  /\ envName = "develop"
  /\ envId = 1
  /\ ProcessStart
  /\ NoTracker
  /\ importPc = "argv"
  /\ importOpts \in ImportOptions
  /\ currentAction = "undefined"
  /\ progressSteps = InitialProgressSteps
  /\ completedSteps = <<>>
  /\ fileNameToUpload = ""
  /\ startImportVariables = <<>>
  /\ effects = <<>>

\* exit.withError( message ) of lib/cli/exit: the message is printed and the
\* process ends with a non-zero status.
withError ==
  /\ importPc' = "exit"
  /\ Did("exit", "error")

\* A rejection nothing handles ends the handler, and with it the process.
Rejected_Unhandled ==
  /\ importPc' = "exit"
  /\ Did("exit", "rejection")

\* The handler up to await track( 'import_sql_command_execute' ): lines
\* 179-189.
ImportArgv ==
  /\ importPc = "argv"
  /\ importPc' = "execute"
  /\ Did("track", "import_sql_command_execute")
  /\ UNCHANGED <<importOpts, currentAction, progressSteps, completedSteps,
                 fileNameToUpload, startImportVariables, wpVars, trackerVars>>

\* await gates( app, env, fileName ) (line 192), up to the first await of
\* gates: lines 77-95.
GatesEnter ==
  /\ importPc = "execute"
  /\ IF ~importOpts.canImport
     THEN /\ importPc' = "gate_failed"
          /\ Did("track", "import_sql_command_error:unauthorized")
     ELSE IF ~importOpts.supported
     THEN /\ importPc' = "gate_failed"
          /\ Did("track", "import_sql_command_error:unsupported-app")
     ELSE /\ importPc' = "file_size"
          /\ Did("getFileSize", "")
  /\ UNCHANGED <<importOpts, currentAction, progressSteps, completedSteps,
                 fileNameToUpload, startImportVariables, wpVars, trackerVars>>

\* The rest of a gate that failed: exit.withError( ... ) after the await of
\* track (lines 83, 90, 99, 104, 116, 121).
GateFailed ==
  /\ importPc = "gate_failed"
  /\ withError
  /\ UNCHANGED <<importOpts, currentAction, progressSteps, completedSteps,
                 fileNameToUpload, startImportVariables, wpVars, trackerVars>>

\* getFileSize has answered: the rest of gates (lines 95-125) and, when all
\* gates are passed, the handler up to its next await (lines 194-234).
FileSizeDone(fileSize) ==
  /\ importPc = "file_size"
  /\ IF fileSize = "empty"
     THEN /\ importPc' = "gate_failed"
          /\ Did("track", "import_sql_command_error:sqlfile-empty")
          /\ UNCHANGED <<currentAction, progressSteps, completedSteps,
                         fileNameToUpload>>
     ELSE IF fileSize = "above_limit"
     THEN /\ importPc' = "gate_failed"
          /\ Did("track", "import_sql_command_error:sqlfile-toobig")
          /\ UNCHANGED <<currentAction, progressSteps, completedSteps,
                         fileNameToUpload>>
     ELSE IF importOpts.dbOperationInProgress
     THEN /\ importPc' = "gate_failed"
          /\ Did("track", "import_sql_command_error:existing-dbop")
          /\ UNCHANGED <<currentAction, progressSteps, completedSteps,
                         fileNameToUpload>>
     ELSE IF importOpts.importInProgress
     THEN /\ importPc' = "gate_failed"
          /\ Did("track", "import_sql_command_error:existing-import")
          /\ UNCHANGED <<currentAction, progressSteps, completedSteps,
                         fileNameToUpload>>
     ELSE /\ currentAction' = "startImport"
          /\ fileNameToUpload' = "fileName"
          /\ IF importOpts.searchReplace # ""
             THEN /\ importPc' = "search_replace"
                  /\ Did("searchAndReplace", importOpts.searchReplace)
                  /\ UNCHANGED <<progressSteps, completedSteps>>
             ELSE /\ SetAndShow("skipped", "startImport")
                  /\ importPc' = "validate"
                  /\ Did("fileLineValidations", "fileName")
  /\ UNCHANGED <<importOpts, startImportVariables, wpVars, trackerVars>>

\* searchAndReplace has answered: lines 211-224 and 229-234.
SearchReplaceDone(isString) ==
  /\ importPc = "search_replace"
  /\ IF isString
     THEN /\ fileNameToUpload' = "outputFileName"
          /\ importPc' = "validate"
          /\ Did("fileLineValidations", "outputFileName")
     ELSE /\ Rejected_Unhandled
          /\ UNCHANGED fileNameToUpload
  /\ UNCHANGED <<importOpts, currentAction, progressSteps, completedSteps,
                 startImportVariables, wpVars, trackerVars>>

\* fileLineValidations has returned; const api = await API(): line 237.
ValidateDone ==
  /\ importPc = "validate"
  /\ importPc' = "api"
  /\ Did("API", "")
  /\ UNCHANGED <<importOpts, currentAction, progressSteps, completedSteps,
                 fileNameToUpload, startImportVariables, wpVars, trackerVars>>

\* The try block up to await uploadImportSqlFileToS3: lines 239-250.
ApiDone ==
  /\ importPc = "api"
  /\ startImportVariables' = <<>>
  /\ SetAndShow("running", currentAction)
  /\ importPc' = "upload"
  /\ Did("upload", fileNameToUpload)
  /\ UNCHANGED <<importOpts, currentAction, fileNameToUpload, wpVars,
                 trackerVars>>

\* The upload has succeeded (lines 250-264) or failed (the catch block up to
\* its await: lines 265-269).
UploadDone(ok) ==
  /\ importPc = "upload"
  /\ IF ok
     THEN /\ startImportVariables' = <<fileNameToUpload>>
          /\ SetAndShow("success", currentAction)
          /\ importPc' = "upload_complete"
          /\ effects' = effects \o << <<"uploaded", "ok">>,
                                      <<"track", "import_sql_upload_complete">> >>
     ELSE /\ SetAndShow("failed", currentAction)
          /\ importPc' = "upload_failed"
          /\ effects' =
               effects \o << <<"uploaded", "failed">>,
                             <<"track", "import_sql_command_error:upload_failed">> >>
          /\ UNCHANGED startImportVariables
  /\ UNCHANGED <<importOpts, currentAction, fileNameToUpload, wpVars,
                 trackerVars>>

\* Faulty variant (for C31): the catch block reports the failure and lets the
\* handler go on.
UploadCatchContGoesOn ==
  /\ importPc = "upload_failed"
  /\ importPc' = "upload_complete"
  /\ UNCHANGED <<importOpts, currentAction, progressSteps, completedSteps,
                 fileNameToUpload, startImportVariables, effects, wpVars,
                 trackerVars>>

\* The rest of the catch block of the upload: exit.withError( e ), line 270.
UploadCatchCont ==
  /\ importPc = "upload_failed"
  /\ withError
  /\ UNCHANGED <<importOpts, currentAction, progressSteps, completedSteps,
                 fileNameToUpload, startImportVariables, wpVars, trackerVars>>

\* After the upload: currentAction = 'import' and the try block up to
\* await api.mutate: lines 273-284.
StartImport ==
  /\ importPc = "upload_complete"
  /\ currentAction' = "import"
  /\ SetAndShow("running", "import")
  /\ importPc' = "mutate"
  /\ Did("mutate", IF startImportVariables = <<>> THEN "no_input" ELSE "input")
  /\ UNCHANGED <<importOpts, fileNameToUpload, startImportVariables, wpVars,
                 trackerVars>>

\* The mutation has succeeded (lines 281-288, 301) or failed (the catch
\* block up to its await: lines 290-297).
MutateDone(ok) ==
  /\ importPc = "mutate"
  /\ IF ok
     THEN /\ SetAndShow("success", currentAction)
          /\ importPc' = "check_status"
          /\ Did("importSqlCheckStatus", "")
     ELSE /\ SetAndShow("failed", currentAction)
          /\ importPc' = "mutate_failed"
          /\ Did("track", "import_sql_command_error:StartImport-failed")
  /\ UNCHANGED <<importOpts, currentAction, fileNameToUpload,
                 startImportVariables, wpVars, trackerVars>>

\* The rest of the catch block of the mutation: exit.withError, line 298.
MutateCatchCont ==
  /\ importPc = "mutate_failed"
  /\ withError
  /\ UNCHANGED <<importOpts, currentAction, progressSteps, completedSteps,
                 fileNameToUpload, startImportVariables, wpVars, trackerVars>>

\* importSqlCheckStatus has returned: the handler is finished (lines
\* 301-302).
CheckStatusDone ==
  /\ importPc = "check_status"
  /\ importPc' = "done"
  /\ UNCHANGED <<importOpts, currentAction, progressSteps, completedSteps,
                 fileNameToUpload, startImportVariables, effects, wpVars,
                 trackerVars>>

ImportNext ==
  \/ ImportArgv
  \/ GatesEnter
  \/ GateFailed
  \/ \E fileSize \in FileSizes : FileSizeDone(fileSize)
  \/ \E isString \in BOOLEAN : SearchReplaceDone(isString)
  \/ ValidateDone
  \/ ApiDone
  \/ \E ok \in BOOLEAN : UploadDone(ok)
  \/ UploadCatchCont
  \/ StartImport
  \/ \E ok \in BOOLEAN : MutateDone(ok)
  \/ MutateCatchCont
  \/ CheckStatusDone

ImportSpec == ImportInit /\ [][ImportNext]_vars

\* ============================================================== properties

\* C1: for the command that is live, the tracked offset equals the sum of the
\* lengths of the chunks received on that command's output streams, and a
\* reconnect request is prepared with exactly that running sum.
C1_OffsetEqualsRunningSum ==
  /\ [](liveGuid # NoGuid => currentOffset = sumData)
  /\ [][\A k \in DOMAIN socks :
          ReconnectEv(k) => \E h \in reconH' \ reconH : h.offset = sumData]_vars

C3_AtMostOneSessionRunning ==
  LET bound(k) == \E s \in DOMAIN streams :
                    /\ streams[s].sock = k
                    /\ s \in stdinPipes \cup stdoutPipes
      running == { socks[k].guid : k \in { j \in DOMAIN socks :
                                           ~socks[j].closed /\ bound(j) } }
  IN Cardinality(running) <= 1

\* C4 as stated: commandRunning is true exactly when process stdin and stdout
\* are piped to the stream pair of a live session (open socket, output not
\* ended).
C4_RunningIffBound ==
  Running =>
    (commandRunning <=>
       /\ currentJob # NoJob
       /\ ~socks[currentJob.socket].closed
       /\ currentJob.stdinStream \in stdinPipes
       /\ currentJob.stdoutStream \in stdoutPipes
       /\ ~streams[currentJob.stdoutStream].ended)

\* C4 amended: commandRunning is false until a transport has been opened and
\* right after an output 'end' event, and it becomes true only in the step in
\* which the line handler pipes stdin and stdout to the pair it just opened.
C4_RunningSetAtLaunchClearedAtEnd ==
  /\ [](Len(opens) = 0 => ~commandRunning)
  /\ [][/\ (\E s \in DOMAIN streams : StreamEnd(s)) => ~commandRunning'
        /\ (~commandRunning /\ commandRunning') =>
             /\ \E h \in lineH : LaunchDone(h)
             /\ currentJob'.socket = Len(socks')
             /\ ~socks'[currentJob'.socket].closed
             /\ currentJob'.stdinStream \in stdinPipes'
             /\ currentJob'.stdoutStream \in stdoutPipes']_vars

\* C4 witness: an output 'end' handler has cleared the flag of a command that
\* was launched, and its continuation has not run yet.
C4_ClearedAfterEnd ==
  /\ Running
  /\ endPending > 0
  /\ ~commandRunning
  /\ currentJob # NoJob
  /\ streams[currentJob.stdoutStream].ended

\* C5: when the reconnect handler has piped the new pair, local stdin is
\* piped into that pair's input stream only and only that pair's output
\* stream is piped into local stdout: the old pair has been unpiped.
C5_ReconnectLeavesSinglePipe ==
  [][\A h \in reconH :
       ReconnectDone(h) =>
         /\ stdinPipes' = {currentJob'.stdinStream}
         /\ stdoutPipes' = {currentJob'.stdoutStream}]_vars

\* C6: an interrupt that follows an earlier one (a cancellation byte has been
\* written) exits the process in the same step and writes no further byte.
C6_SecondInterruptExits ==
  [][(Sigint /\ cancelBytes >= 1)
       => /\ exitSite' = "sigint_second"
          /\ cancelBytes' = cancelBytes]_vars

\* C6 witness: the process has exited on the second interrupt with exactly
\* one cancellation byte written.
C6_ExitedOnSecondInterrupt ==
  exitSite = "sigint_second" /\ cancelBytes = 1

\* C7: in the subshell, the handler of the first interrupt, received while a
\* command was running, does not exit the process, whatever ran while it was
\* suspended; and that interrupt wrote exactly one cancellation byte.
C7_SingleInterruptSurvives ==
  [][(isSubShell /\ sigH = "running" /\ SigintCont)
       => (Running' /\ cancelBytes' = 1)]_vars

\* C8: whenever the subshell is back at the prompt after a command (nothing
\* piped to process stdio, no handler suspended), countSIGINT is 0.
C8_CountResetAtIdle ==
  (/\ Running
   /\ isSubShell
   /\ pc = "loop"
   /\ promptShown
   /\ ~commandRunning
   /\ stdinPipes = {} /\ stdoutPipes = {}
   /\ lineH = {} /\ reconH = {} /\ endPending = 0 /\ sigH = "none")
    => countSIGINT = 0

\* C9 as stated: a line submitted at the idle prompt that does not start with
\* "wp ", is not the cancellation byte and is not in log-attach mode prints
\* the validation error, calls no dispatcher, opens no transport and leaves
\* the loop at the prompt.
C9_NonWpLineRejected ==
  [][\A line \in Lines :
       (/\ ~commandRunning
        /\ ~StartsWith(line, WpPrefix)
        /\ line # cancelCommandChar
        /\ opts.log = "absent"
        /\ LineEvent(line))
         => /\ console' = "invalid_command"
            /\ Running'
            /\ promptShown'
            /\ dispatched' = dispatched
            /\ opens' = opens
            /\ lineH' = lineH]_vars

\* C9 amended: the same for a line that is moreover non-empty and does not
\* start with "exit".
C9_NonWpNonExitLineRejected ==
  [][\A line \in Lines :
       (/\ ~commandRunning
        /\ Len(line) > 0
        /\ ~StartsWith(line, ExitWord)
        /\ ~StartsWith(line, WpPrefix)
        /\ line # cancelCommandChar
        /\ opts.log = "absent"
        /\ LineEvent(line))
         => /\ console' = "invalid_command"
            /\ Running'
            /\ promptShown'
            /\ dispatched' = dispatched
            /\ opens' = opens
            /\ lineH' = lineH]_vars

\* C9 witness: the validation error has just been printed and the prompt is
\* shown again, with no line handler suspended on the dispatcher.
C9_ValidationErrorShown ==
  /\ Running
  /\ console = "invalid_command"
  /\ promptShown
  /\ lineH = {}

\* C10: in a one-shot run on production without --yes nothing is dispatched
\* and no transport is opened before the confirmation prompt has been shown
\* and while it is unanswered; a decline exits with code 0 and leaves both
\* counts at zero.
C10_ConfirmBeforeDispatch ==
  /\ (/\ Len(args) > 0
      /\ opts.log = "absent"
      /\ envName = "production"
      /\ ~opts.yes
      /\ (~confirmShown \/ pc = "confirm"))
       => (Len(dispatched) = 0 /\ Len(opens) = 0)
  /\ exitSite = "confirm_decline"
       => (exitCode = 0 /\ Len(dispatched) = 0 /\ Len(opens) = 0)

\* C10 witness: the user has declined the confirmation prompt.
C10_Declined ==
  exitSite = "confirm_decline" /\ confirmShown

\* C11: with --log <id> no listing request and no dispatcher call is ever
\* made, and every transport the line handler opens carries the given id and
\* commandAction "logs"; the first transport is opened by the line handler.
C11_LogAttachBypassesDispatch ==
  opts.log = "id" =>
    /\ listingCalls = <<>>
    /\ Len(dispatched) = 0
    /\ Len(opens) > 0 => opens[1].by = "line"
    /\ \A n \in DOMAIN opens :
         opens[n].by = "line" =>
           (opens[n].guid = LogGuid /\ opens[n].commandAction = "logs")

\* C11 witness: in a --log <id> run the first transport has been opened.
C11_LogTransportOpened ==
  opts.log = "id" /\ Len(opens) > 0 /\ commandRunning

C13_DispatchFailure ==
  [][\A h \in lineH :
       DispatchFail(h) =>
         /\ opens' = opens
         /\ ~commandRunning => ~commandRunning'
         /\ IF isSubShell
            THEN /\ Running'
                 /\ promptShown'
                 /\ stdinFlowing'
                 /\ lineH' = lineH \ {h}
            ELSE exitSite' = "dispatch_fail" /\ exitCode' = 1]_vars

\* C13 witness: the subshell is back at the prompt after a failed dispatch,
\* with no transport opened.
C13_FailedDispatchReprompts ==
  /\ Running
  /\ isSubShell
  /\ console = "dispatch_error"
  /\ promptShown
  /\ ~commandRunning
  /\ Len(dispatched) > 0
  /\ Len(opens) = 0

\* C14: a 'cancel' event on any open socket ends the process with a status
\* other than 0, in every mode and state.
C14_ServerCancelExits ==
  [][\A k \in DOMAIN socks :
       Cancel(k) => (~Running' /\ exitCode' # 0)]_vars

\* C14 witness: the subshell process has exited on a server cancel.
C14_ExitedOnServerCancel ==
  isSubShell /\ exitSite = "server_cancel" /\ exitCode = 1

\* C15: in the subshell, when the handler of the 'end' of the current job's
\* output stream has finished, commandRunning is false, the offset is 0, the
\* job's socket is closed, no stream is piped to or from process stdio, input
\* is resumed and the prompt is shown.
C15_EndReturnsToIdle ==
  [][(/\ isSubShell
      /\ endPending = 1
      /\ currentJob # NoJob
      /\ streams[currentJob.stdoutStream].ended
      /\ EndCont)
       => /\ Running'
          /\ ~commandRunning'
          /\ currentOffset' = 0
          /\ socks'[currentJob.socket].closed
          /\ stdinPipes' = {}
          /\ stdoutPipes' = {}
          /\ stdinFlowing'
          /\ promptShown']_vars

\* C16: in a run that is not a subshell, the continuation of an output 'end'
\* handler ends the process with status 0, and from the 'end' event on no
\* submitted "wp " line is accepted any more (no handler is started for it
\* and the dispatcher is not called).
C16_OneShotEndExits ==
  [][~isSubShell =>
       /\ EndCont => (~Running' /\ exitCode' = 0)
       /\ endPending > 0 =>
            \A line \in Lines :
              (StartsWith(line, WpPrefix) /\ LineEvent(line))
                => (lineH' = lineH /\ dispatched' = dispatched)]_vars

\* C17: a line that starts with "wp " and is accepted for dispatch makes
\* exactly one dispatcher call, with the rest of the line after that prefix;
\* the first dispatcher call of a one-shot run carries exactly cmd.
C17_DispatchedWithoutPrefix ==
  /\ []((Len(args) > 0 /\ opts.log = "absent" /\ Len(dispatched) > 0)
          => dispatched[1] = args)
  /\ [][\A line \in Lines :
          (/\ ~commandRunning
           /\ opts.log = "absent"
           /\ StartsWith(line, WpPrefix)
           /\ LineEvent(line))
            => dispatched' =
                 Append(dispatched,
                        SubSeq(line, Len(WpPrefix) + 1, Len(line)))]_vars

\* C17 witness: a one-shot command that contains "wp " has been dispatched
\* unchanged.
C17_InnerPrefixKept ==
  /\ Len(args) > 0
  /\ Occurrences(args, WpPrefix) # {}
  /\ Len(dispatched) > 0
  /\ dispatched[1] = args

\* C18: when the line handler opens the first transport of a dispatched
\* command, the open request carries offset 0 and the tracked counter
\* currentOffset is 0 as well.
C18_FirstOpenStartsAtZero ==
  [][\A h \in lineH :
       (h.d > 0 /\ LaunchDone(h))
         => (opens'[Len(opens')].offset = 0 /\ currentOffset' = 0)]_vars

\* The command of the current job has been launched and has neither ended
\* nor been cancelled.
CommandIncomplete ==
  /\ currentJob # NoJob
  /\ Live(currentJob.stdoutStream)
  /\ endPending = 0

\* C19: an 'error' of the streaming command's output stream clears
\* commandRunning and prints the error, leaving the stream bindings and the
\* offset as they were; afterwards, as long as that command has neither ended
\* nor been cancelled, no submitted line leads to a dispatcher call.
C19_ErrorKeepsStreaming ==
  [][/\ (/\ commandRunning
         /\ currentJob # NoJob
         /\ StreamError(currentJob.stdoutStream))
          => /\ ~commandRunning'
             /\ console' = ErrorText
             /\ <<currentJob, stdinPipes, stdoutPipes, currentOffset>>' =
                  <<currentJob, stdinPipes, stdoutPipes, currentOffset>>
     /\ (/\ ~commandRunning
         /\ CommandIncomplete
         /\ currentJob.stdoutStream \in stdoutPipes
         /\ lineH = {})
          => \A line \in Lines :
               (StartsWith(line, WpPrefix) /\ LineEvent(line))
                 => dispatched' = dispatched]_vars

\* C20: while a line handler is waiting for the dispatcher or for the
\* transport, or the launched command has not completed, no further line
\* handler is started and the dispatcher is not called again.
C20_OneCommandInFlight ==
  [][(lineH # {} \/ commandRunning \/ CommandIncomplete)
       => \A line \in Lines :
            (StartsWith(line, WpPrefix) /\ LineEvent(line))
              => (dispatched' = dispatched /\ lineH' = lineH)]_vars

\* C21: when the reconnect handler has finished, local stdin is piped into
\* the input stream of the new pair and into no placeholder stream created
\* by a reconnect_attempt.
C21_PlaceholderDiscarded ==
  [][\A h \in reconH :
       ReconnectDone(h) =>
         /\ currentJob'.stdinStream \in stdinPipes'
         /\ \A s \in stdinPipes' : streams'[s].kind # "pin"]_vars

C27_IdleInterruptExits ==
  [][(sigH = "idle" /\ SigintCont)
       => (~Running' /\ cancelBytes' >= 1 /\ console' = "cancelled_by_user")]_vars

\* C23: an 'error' event of a socket, the rate limit case included, only
\* prints: commandRunning, the tracked offset, the current job and the pipes
\* of process stdin and stdout are unchanged and the process keeps running.
C23_SocketErrorOnlyPrints ==
  [][\A k \in DOMAIN socks : \A rateLimit \in BOOLEAN :
       SocketError(k, rateLimit) =>
         /\ <<commandRunning, currentOffset, currentJob>>' =
              <<commandRunning, currentOffset, currentJob>>
         /\ <<stdinPipes, stdoutPipes>>' = <<stdinPipes, stdoutPipes>>
         /\ Running'
         /\ console' = IF rateLimit THEN RateLimitText ELSE ErrorText]_vars

\* C23 witness: the rate limit notice has been printed and the command is
\* still running with its streams piped.
C23_RateLimitedStillRunning ==
  /\ Running
  /\ console = RateLimitText
  /\ commandRunning
  /\ currentOffset > 0
  /\ currentJob # NoJob
  /\ currentJob.stdinStream \in stdinPipes
  /\ currentJob.stdoutStream \in stdoutPipes

\* C24: after an 'unauthorized' event on the socket of the current job the
\* client does not go on treating that connection's command as running
\* (commandRunning true with that socket still open), and the handler opens
\* no transport.
C24_UnauthorizedIsTerminal ==
  [][\A k \in DOMAIN socks :
       (Unauthorized(k) /\ currentJob.socket = k)
         => /\ ~(commandRunning' /\ Running' /\ ~socks'[k].closed)
            /\ Running' => opens' = opens]_vars

\* C25: a submitted line that is the cancellation byte is never answered
\* with the validation error; when no command is running (and no log is
\* attached) it passes the validation although it does not start with "wp ",
\* and is handed to the dispatcher.
C25_CancelLineIsValid ==
  [][LineEvent(cancelCommandChar) =>
       /\ ~StartsWith(cancelCommandChar, WpPrefix)
       /\ console' # "invalid_command"
       /\ (~commandRunning /\ opts.log = "absent")
            => (Len(dispatched') = Len(dispatched) + 1 /\ ~promptShown')]_vars

\* C25 witness: the line made of the cancellation byte has been submitted at
\* the prompt of the subshell and has passed the validation.
C25_CancelLinePassed ==
  /\ isSubShell
  /\ console # "invalid_command"
  /\ \E n \in DOMAIN dispatched : dispatched[n] = cancelCommandChar

\* C26: in the subshell, when the 'end' handler of the current job's output
\* stream re-displays the prompt, it has written a newline to stdout exactly
\* if the line of the completed command asked for a line-oriented format.
C26_NewlineAfterLineFormat ==
  [][\A d \in DOMAIN dispatched :
       (/\ isSubShell
        /\ currentJob # NoJob
        /\ streams[currentJob.stdoutStream].ended
        /\ socks[currentJob.socket].guid = GuidOf(d)
        /\ EndCont)
         => /\ promptShown'
            /\ (console' = "newline") <=> LineOriented(dispatched[d])]_vars

\* C28: with --log given without an id, the first step sends exactly one
\* listing query, for status "complete" and at most 5 commands; the next
\* step ends the process; the dispatcher is never called and no transport is
\* ever opened.
C28_LogListingOnly ==
  /\ [](opts.log = "true" =>
          /\ Len(dispatched) = 0
          /\ Len(opens) = 0
          /\ socks = <<>>
          /\ pc \in {"argv", "listing", "exit"}
          /\ listingCalls = IF pc = "argv"
                            THEN <<>>
                            ELSE <<[status |-> "complete", first |-> 5]>>)
  /\ [][pc = "listing" => (~Running' /\ pc' = "exit")]_vars

\* C28 witness: the listing has been printed and the process has exited.
C28_ListingPrinted ==
  /\ opts.log = "true"
  /\ exitSite = "log_list"
  /\ console = "listing"
  /\ Len(listingCalls) = 1

\* A call of setStatusForStepId that the method must reject: the id is not
\* a caller step, or the step is already success or skipped.
Rejected(stepId) ==
  \/ \A i \in DOMAIN stepsFromCaller : stepsFromCaller[i].id # stepId
  \/ \E i \in DOMAIN stepsFromCaller :
       /\ stepsFromCaller[i].id = stepId
       /\ stepsFromCaller[i].status \in {"success", "skipped"}

\* C29: setStatusForStepId throws for an id that is not a caller step and
\* for a step that is already success or skipped, and leaves the statuses of
\* all steps and hasFailure as they were; no method ever changes the status
\* of a caller step that is success or skipped.
C29_CompletedStepsAreFinal ==
  /\ [][\A id \in CallIds : \A status \in Statuses :
          (Rejected(id) /\ setStatusForStepId(id, status))
            => /\ thrown' # "none"
               /\ stepsFromCaller' = stepsFromCaller
               /\ stepsFromServer' = stepsFromServer
               /\ hasFailure' = hasFailure]_vars
  /\ [][\A i \in DOMAIN stepsFromCaller :
          stepsFromCaller[i].status \in {"success", "skipped"}
            => stepsFromCaller'[i] = stepsFromCaller[i]]_vars

\* C29 witness: an update of a skipped step has been rejected and no failure
\* has been recorded.
C29_SkippedStepRejected ==
  /\ thrown = "already_completed"
  /\ \E i \in DOMAIN stepsFromCaller : stepsFromCaller[i].status = "skipped"
  /\ ~hasFailure

\* C30: a call of stepSuccess for a caller step that is not completed sets
\* that step to success; if a step is then still pending, the first pending
\* step in step order is set to running and allStepsSucceeded is not set;
\* only if no step is pending is allStepsSucceeded set to true.  Once
\* allStepsSucceeded is true, getNextStep returns no step.
C30_StepSuccessAdvances ==
  /\ [](allStepsSucceeded = "true" => getNextStep = NoStep)
  /\ [][\A id \in CallIds :
          (~Rejected(id) /\ stepSuccess(id)) =>
            LET pending ==
                  FirstPending(
                    MergedSteps(MapSet(stepsFromCaller, Step(id, "success")),
                                stepsFromServer))
            IN /\ thrown' = "none"
               /\ IF pending # NoStep
                  THEN /\ MapGet(getSteps', id).status = "success"
                       /\ MapGet(getSteps', pending.id).status = "running"
                       /\ allStepsSucceeded' = allStepsSucceeded
                  ELSE /\ MapGet(getSteps', id).status = "success"
                       /\ allStepsSucceeded' = "true"]_vars

\* C32: in a log-attach run every 'cmd' request, those of the reconnect
\* handler included, carries commandAction "logs".
C32_LogOpensCarryLogsAction ==
  opts.log = "id" =>
    \A n \in DOMAIN opens : opens[n].commandAction = "logs"

\* C33: the dispatcher is never called with the cancellation byte as the
\* command text.
C33_CancelByteNeverDispatched ==
  \A n \in DOMAIN dispatched : dispatched[n] # cancelCommandChar

\* C34: in the subshell, when the reconnect handler finishes after the 'end'
\* handler of the running command has run to its end (the output stream of
\* the current job has ended, its socket is closed, no 'end' handler is
\* suspended), the loop is idle: commandRunning is false, the prompt is
\* shown and nothing is piped to or from process stdio.
C34_EndDuringReconnect ==
  [][\A h \in reconH :
       (/\ isSubShell
        /\ currentJob # NoJob
        /\ streams[currentJob.stdoutStream].ended
        /\ socks[currentJob.socket].closed
        /\ endPending = 0
        /\ ReconnectDone(h))
         => /\ ~commandRunning'
            /\ promptShown'
            /\ stdinPipes' = {}
            /\ stdoutPipes' = {}]_vars

\* C35: while a command is running, the socket of the current job is one on
\* which the reconnect handlers are registered, so that its 'reconnect'
\* event re-opens the transport.
C35_CurrentSocketReconnects ==
  (/\ Running
   /\ commandRunning
   /\ currentJob # NoJob
   /\ ~socks[currentJob.socket].closed)
    => socks[currentJob.socket].handlers

\* C38: stepSuccess, called with the id of a caller step that exists and is
\* not completed, never throws, whatever steps the server has installed.
C38_StepSuccessNeverThrows ==
  [][\A id \in CallIds :
       (~Rejected(id) /\ stepSuccess(id)) => thrown' = "none"]_vars

\* C39: when allStepsSucceeded is true, every caller step is "success" or
\* "skipped" and hasFailure is false.
C39_AllSucceededMeansAllDone ==
  allStepsSucceeded = "true" =>
    /\ \A i \in DOMAIN stepsFromCaller :
         stepsFromCaller[i].status \in {"success", "skipped"}
    /\ ~hasFailure

\* C37: when the listing has printed commands and the answer held the
\* environment whose id is envId, the commands printed are those of that
\* environment, and every environment record of the answer still has the id
\* it was received with.
C37_ListsTheSelectedEnvironment ==
  (/\ opts.log = "true"
   /\ exitSite = "log_list"
   /\ \E i \in DOMAIN res.environments :
        res.environments[i].commands = CommandsOf(envId))
    => /\ listed = CommandsOf(envId)
       /\ \A i \in DOMAIN res.environments :
            res.environments[i].commands = CommandsOf(res.environments[i].id)

\* The events of the import so far hold one of the given kind.
Happened(kind) == \E n \in DOMAIN effects : effects[n][1] = kind

\* C31: the start-import mutation is issued only after the upload has
\* succeeded.  When the upload fails the current step is marked failed, and
\* from then on no mutation and no status poll is ever issued: the handler
\* waits for the tracking call and then exits with an error.
C31_MutationOnlyAfterUpload ==
  /\ [](\A n \in DOMAIN effects :
          effects[n][1] = "mutate" =>
            \E m \in 1..(n - 1) : effects[m] = <<"uploaded", "ok">>)
  /\ [][\A ok \in BOOLEAN :
          (~ok /\ UploadDone(ok)) =>
            /\ MapGet(progressSteps', currentAction).status = "failed"
            /\ importPc' = "upload_failed"]_vars
  /\ []((\E n \in DOMAIN effects : effects[n] = <<"uploaded", "failed">>) =>
          /\ ~Happened("mutate")
          /\ ~Happened("importSqlCheckStatus")
          /\ importPc \in {"upload_failed", "exit"}
          /\ importPc = "exit" =>
               effects[Len(effects)] = <<"exit", "error">>)

\* C31 witness: the upload has failed and the command has exited.
C31_ExitedOnFailedUpload ==
  /\ importPc = "exit"
  /\ \E n \in DOMAIN effects : effects[n] = <<"uploaded", "failed">>

\* The process has ended.
Terminated == ~Running

\* The prompt loop is idle: no command is running or being dispatched, local
\* input is resumed and the prompt is displayed.
Idle ==
  /\ Running
  /\ ~commandRunning
  /\ lineH = {}
  /\ stdinFlowing
  /\ promptShown

\* C36: in the subshell, when the handlers proceed and every output stream
\* that can end does end, a running command is eventually followed by the
\* end of the process or by the idle loop.
C36_CommandLeadsToIdle ==
  (isSubShell /\ commandRunning) ~> (Terminated \/ Idle)

====
